---- MODULE Spec2Model ----
(***************************************************************************)
(* A model of maps_route.py: the MapsRoute collector.  One process builds  *)
(* a request URL, polls the clock until an interval has elapsed, fetches   *)
(* one route, appends (timestamp, value) to all_data and rewrites the      *)
(* pickle file.  The file system, the clock and the HTTP server are the    *)
(* environment.                                                            *)
(***************************************************************************)
EXTENDS Integers, Sequences, FiniteSets, TLC

VARIABLES
    pc,             \* position of the process in __init__ / collect_data
    all_data,       \* self.all_data
    file,           \* the pickle file at self.file_name: [exists, bytes]
    now,            \* the wall clock read by datetime.now()
    curr_time,      \* collect_data's local curr_time
    interval,       \* collect_data's argument interval
    store_json,     \* collect_data's argument store_json
    parameters,     \* self.parameters, in iteration order
    base_url,       \* self.base_url
    api_key,        \* self.api_key
    url,            \* collect_data's local url
    resp,           \* send_request's local resp
    received_data,  \* get_packet's local received_data
    packet,         \* collect_data's local packet
    err,            \* the exception that ended the process, if any
    data0,          \* history: all_data when collect_data was called
    file0,          \* history: file when collect_data was called
    fetches,        \* history: requests sent by this call (0 before any call)
    resp_at,        \* history: clock when the last response arrived
    persisted,      \* history: the list of the last pickle.dump that completed
    created         \* history: __init__ found no file and created it

vars == <<pc, all_data, file, now, curr_time, interval, store_json, parameters,
          base_url, api_key, url, resp, received_data, packet, err, data0,
          file0, fetches, resp_at, persisted, created>>

(***************************************************************************)
(* Bounds and program constants                                            *)
(***************************************************************************)
MaxTime == 25
MaxDrift == 1
Granularity == 10

Intervals == {0, 5, 10, 11, 15}
Drifts == 0..MaxDrift

(***************************************************************************)
(* Python values.  A value carries its type, as a Python object does.      *)
(***************************************************************************)
None == [kind |-> "none"]
Str(s) == [kind |-> "str", s |-> s]
Int_(n) == [kind |-> "int", n |-> n]
Num(n) == [num |-> n]

Digit(d) == <<"0", "1", "2", "3", "4", "5", "6", "7", "8", "9">>[d + 1]

RECURSIVE Digits(_)
Digits(n) == IF n < 10 THEN <<Digit(n)>> ELSE Digits(n \div 10) \o <<Digit(n % 10)>>

\* str(value) of line 58: a string is itself, an int is its decimal digits
str(v) == IF v.kind = "str" THEN v.s ELSE Digits(v.n)

(***************************************************************************)
(* build_url                                                               *)
(***************************************************************************)
RECURSIVE build_loop(_, _, _)
build_loop(params, i, acc) ==
    IF i > Len(params) THEN acc
    ELSE LET param == params[i][1]
             value == params[i][2]
         IN  build_loop(params, i + 1,
                 IF value # None
                 THEN acc \o param \o <<"=">> \o str(value) \o <<"&">>
                 ELSE acc)

build_url_keep_none(base, params, key) ==
    LET RECURSIVE all(_, _)
        all(i, acc) == IF i > Len(params) THEN acc
                       ELSE all(i + 1, acc \o params[i][1] \o <<"=">>
                                 \o (IF params[i][2] = None THEN <<"N", "o", "n", "e">>
                                     ELSE str(params[i][2])) \o <<"&">>)
    IN  all(1, base) \o <<"k", "e", "y", "=">> \o key

build_url(base, params, key) ==
    build_loop(params, 1, base) \o <<"k", "e", "y", "=">> \o key

(***************************************************************************)
(* pickle: the file holds a sequence of opcodes                            *)
(***************************************************************************)
MARK == [op |-> "MARK"]
LIST == [op |-> "LIST"]
TUPLE == [op |-> "TUPLE"]
APPEND == [op |-> "APPEND"]
STOP == [op |-> "STOP"]
DateTok(t) == [op |-> "DATETIME", t |-> t]
ValTok(v) == [op |-> "VALUE", v |-> v]

RECURSIVE dump_items(_, _)
dump_items(data, i) ==
    IF i > Len(data) THEN <<>>
    ELSE <<MARK, DateTok(data[i][1]), ValTok(data[i][2]), TUPLE, APPEND>>
         \o dump_items(data, i + 1)

pickle_dump(data) == <<MARK, LIST>> \o dump_items(data, 1) \o <<STOP>>

RECURSIVE load_items(_, _, _)
load_items(bytes, i, acc) ==
    IF i > Len(bytes) THEN [ok |-> FALSE, err |-> "EOFError"]
    ELSE IF bytes[i] = STOP THEN [ok |-> TRUE, data |-> acc]
    ELSE IF /\ i + 4 <= Len(bytes)
            /\ bytes[i] = MARK
            /\ bytes[i + 1].op = "DATETIME"
            /\ bytes[i + 2].op = "VALUE"
            /\ bytes[i + 3] = TUPLE
            /\ bytes[i + 4] = APPEND
         THEN load_items(bytes, i + 5,
                         Append(acc, <<bytes[i + 1].t, bytes[i + 2].v>>))
         ELSE [ok |-> FALSE, err |-> "EOFError"]

pickle_load(bytes) ==
    IF Len(bytes) >= 2 /\ bytes[1] = MARK /\ bytes[2] = LIST
    THEN load_items(bytes, 3, <<>>)
    ELSE [ok |-> FALSE, err |-> "EOFError"]

(***************************************************************************)
(* The HTTP server: what requests.get can come back with                   *)
(***************************************************************************)
Route(n) == [resourceSets |-> << [resources |-> << [travelDurationTraffic |-> Num(n)] >>] >>]
NoResourceSets == [errorDetails |-> <<>>]
EmptyResourceSets == [resourceSets |-> <<>>]
EmptyResources == [resourceSets |-> << [resources |-> <<>>] >>]
NoDuration == [resourceSets |-> << [resources |-> << [travelDuration |-> Num(42)] >>] >>]

GoodDocs == {Route(42)}
BadDocs == {NoResourceSets, EmptyResourceSets, EmptyResources, NoDuration}

Texts == {[valid |-> TRUE, doc |-> d] : d \in GoodDocs \cup BadDocs}
             \cup {[valid |-> FALSE]}
Statuses == {200, 404}
Outcomes == {[kind |-> "refused"]}
                \cup {[kind |-> "response", status |-> s, text |-> t] :
                          s \in Statuses, t \in Texts}

NoResp == [kind |-> "none"]
NoJson == [none |-> TRUE]
NoPacket == <<>>

json_loads(text) ==
    IF text.valid THEN [ok |-> TRUE, data |-> text.doc]
    ELSE [ok |-> FALSE, err |-> "ValueError"]

send_request_checks_status(o) ==
    IF o.kind = "refused" THEN [ok |-> FALSE, err |-> "ConnectionError"]
    ELSE IF o.status # 200 THEN [ok |-> FALSE, err |-> "HTTPError"]
    ELSE json_loads(o.text)

\* lines 70-72: requests.get raises when no response arrives; the status of a
\* response is not looked at
send_request(o) ==
    IF o.kind = "refused" THEN [ok |-> FALSE, err |-> "ConnectionError"]
    ELSE json_loads(o.text)

\* line 81: json['resourceSets'][0]['resources'][0]
parse_json(json) ==
    IF "resourceSets" \notin DOMAIN json THEN [ok |-> FALSE, err |-> "KeyError"]
    ELSE IF Len(json.resourceSets) = 0 THEN [ok |-> FALSE, err |-> "IndexError"]
    ELSE IF "resources" \notin DOMAIN json.resourceSets[1]
         THEN [ok |-> FALSE, err |-> "KeyError"]
    ELSE IF Len(json.resourceSets[1].resources) = 0
         THEN [ok |-> FALSE, err |-> "IndexError"]
    ELSE [ok |-> TRUE, val |-> json.resourceSets[1].resources[1]]

get_packet_lazy(data, timestamp, return_json) ==
    IF return_json THEN [ok |-> TRUE, packet |-> <<timestamp, data>>]
    ELSE LET res == parse_json(data)
         IN  IF ~res.ok THEN res
             ELSE IF "travelDurationTraffic" \notin DOMAIN res.val
                  THEN [ok |-> FALSE, err |-> "KeyError"]
             ELSE [ok |-> TRUE,
                   packet |-> <<timestamp, res.val.travelDurationTraffic>>]

get_packet_swapped(data, timestamp, return_json) ==
    LET res == parse_json(data)
    IN  IF ~res.ok THEN res
        ELSE IF "travelDurationTraffic" \notin DOMAIN res.val
             THEN [ok |-> FALSE, err |-> "KeyError"]
        ELSE [ok |-> TRUE,
              packet |-> <<timestamp,
                           IF return_json THEN res.val.travelDurationTraffic
                           ELSE data>>]

\* lines 94-99, after send_request has returned `data` and the clock was read
get_packet(data, timestamp, return_json) ==
    LET res == parse_json(data)
    IN  IF ~res.ok THEN res
        ELSE IF "travelDurationTraffic" \notin DOMAIN res.val
             THEN [ok |-> FALSE, err |-> "KeyError"]
        ELSE [ok |-> TRUE,
              packet |-> <<timestamp,
                           IF return_json THEN data
                           ELSE res.val.travelDurationTraffic>>]

(***************************************************************************)
(* The conditions of __init__ and collect_data                             *)
(***************************************************************************)
file_missing_always(f) == TRUE
file_missing_never(f) == FALSE

\* line 42: not os.path.isfile(self.file_name)
file_missing(f) == ~f.exists

loop_cond_le(t, start, i) == t - start <= i

\* line 107: datetime.now() - curr_time < interval
loop_cond(t, start, i) == t - start < i

\* line 109: datetime.now() - curr_time >= interval
fire_cond(t, start, i) == t - start >= i

(***************************************************************************)
(* The process                                                             *)
(***************************************************************************)
NoFile == [exists |-> FALSE, bytes |-> <<>>]
FileOf(data) == [exists |-> TRUE, bytes |-> pickle_dump(data)]

Locals == <<curr_time, interval, store_json, url, resp, received_data, packet,
            data0, file0, fetches, resp_at>>
Config == <<parameters, base_url, api_key>>

ResetLocals ==
    /\ curr_time' = 0
    /\ interval' = 0
    /\ store_json' = FALSE
    /\ url' = <<>>
    /\ resp' = NoResp
    /\ received_data' = NoJson
    /\ packet' = NoPacket
    /\ data0' = <<>>
    /\ file0' = NoFile
    /\ fetches' = 0
    /\ resp_at' = 0

Raise(e) ==
    /\ pc' = "error"
    /\ err' = e

\* lines 39-45: self.all_data = [] was set on entry; create the file or load it
Construct ==
    /\ pc = "init"
    /\ IF file_missing(file)
       THEN \* open(self.file_name, "wb") creates the file, empty
            /\ file' = [exists |-> TRUE, bytes |-> <<>>]
            /\ pc' = "ctor_dump"
            /\ created' = TRUE
            /\ UNCHANGED <<all_data, err>>
       ELSE IF ~file.exists
            THEN \* open(self.file_name, "rb") of a file that is not there
                 /\ Raise("IOError")
                 /\ UNCHANGED <<all_data, file, created>>
            ELSE LET res == pickle_load(file.bytes)
                 IN  IF res.ok
                     THEN /\ all_data' = res.data
                          /\ pc' = "ready"
                          /\ UNCHANGED <<file, err, created>>
                     ELSE /\ Raise(res.err)
                          /\ UNCHANGED <<all_data, file, created>>
    /\ UNCHANGED <<now, Locals, Config, persisted>>

\* pickle.dump writes the opcodes of `data` to a file opened "wb": the file
\* grows by some opcodes at a time until all are written and the file is closed
WriteSome(data, k, done) ==
    /\ k \in (Len(file.bytes) + 1)..Len(pickle_dump(data))
    /\ file' = [exists |-> TRUE, bytes |-> SubSeq(pickle_dump(data), 1, k)]
    /\ IF k = Len(pickle_dump(data))
       THEN /\ pc' = done
            /\ persisted' = data
       ELSE UNCHANGED <<pc, persisted>>

\* line 43: pickle.dump(self.all_data, ...)
CtorDump ==
    /\ pc = "ctor_dump"
    /\ \E k \in 1..Len(pickle_dump(all_data)) : WriteSome(all_data, k, "ready")
    /\ UNCHANGED <<all_data, now, err, Locals, Config, created>>

\* line 106: curr_time = datetime.now()
CollectData ==
    /\ pc \in {"ready", "returned"}
    /\ \E i \in Intervals, sj \in BOOLEAN :
          /\ interval' = i
          /\ store_json' = sj
    /\ curr_time' = now
    /\ data0' = all_data
    /\ file0' = file
    /\ fetches' = 0
    /\ url' = <<>>
    /\ resp' = NoResp
    /\ received_data' = NoJson
    /\ packet' = NoPacket
    /\ resp_at' = 0
    /\ pc' = "while"
    /\ UNCHANGED <<all_data, file, now, err, Config, persisted, created>>

\* line 107: the clock is read again, some time after line 106 or line 109
LoopCheck(D) ==
    /\ pc = "while"
    /\ \E d \in D :
          /\ now + d <= MaxTime
          /\ now' = now + d
          /\ pc' = IF loop_cond(now + d, curr_time, interval) THEN "sleep" ELSE "returned"
    /\ UNCHANGED <<all_data, file, err, Locals, Config, persisted, created>>

\* line 108: sleep(10)
Sleep(D) ==
    /\ pc = "sleep"
    /\ \E d \in D :
          /\ now + Granularity + d <= MaxTime
          /\ now' = now + Granularity + d
    /\ pc' = "if"
    /\ UNCHANGED <<all_data, file, err, Locals, Config, persisted, created>>

\* lines 109-110
IfCheck ==
    /\ pc = "if"
    /\ IF fire_cond(now, curr_time, interval)
       THEN /\ url' = build_url(base_url, parameters, api_key)
            /\ pc' = "request"
       ELSE /\ pc' = "while"
            /\ UNCHANGED url
    /\ UNCHANGED <<all_data, file, now, err, curr_time, interval, store_json, resp,
                   received_data, packet, data0, file0, fetches, resp_at, Config,
                   persisted, created>>

\* line 93: the request takes some time and the server answers as it likes
SendRequest(D) ==
    /\ pc = "request"
    /\ \E o \in Outcomes, d \in D :
          /\ now + d <= MaxTime
          /\ now' = now + d
          /\ resp_at' = now + d
          /\ resp' = o
          /\ LET res == send_request(o)
             IN  IF res.ok
                 THEN /\ received_data' = res.data
                      /\ pc' = "got"
                      /\ UNCHANGED err
                 ELSE /\ Raise(res.err)
                      /\ UNCHANGED received_data
    /\ fetches' = fetches + 1
    /\ UNCHANGED <<all_data, file, curr_time, interval, store_json, url, packet,
                   data0, file0, Config, persisted, created>>

\* lines 94-99
GetPacket ==
    /\ pc = "got"
    /\ LET res == get_packet(received_data, now, store_json)
       IN  IF res.ok
           THEN /\ packet' = res.packet
                /\ pc' = "append"
                /\ UNCHANGED err
           ELSE /\ Raise(res.err)
                /\ UNCHANGED packet
    /\ UNCHANGED <<all_data, file, now, curr_time, interval, store_json, url, resp,
                   received_data, data0, file0, fetches, resp_at, Config, persisted, created>>

\* line 112
AppendPacket ==
    /\ pc = "append"
    /\ all_data' = Append(all_data, packet)
    /\ pc' = "persist"
    /\ UNCHANGED <<file, now, err, Locals, Config, persisted, created>>

\* line 113: open(self.file_name, "wb") truncates the file
PersistOpen ==
    /\ pc = "persist"
    /\ file' = [exists |-> TRUE, bytes |-> <<>>]
    /\ pc' = "dumping"
    /\ UNCHANGED <<all_data, now, err, Locals, Config, persisted, created>>

\* line 113: pickle.dump(self.all_data, ...); then back to line 107
PersistDump ==
    /\ pc = "dumping"
    /\ \E k \in 1..Len(pickle_dump(all_data)) : WriteSome(all_data, k, "while")
    /\ UNCHANGED <<all_data, now, err, Locals, Config, created>>

Running == {"ctor_dump", "ready", "while", "sleep", "if", "request", "got",
            "append", "persist", "dumping", "returned"}

\* the process is killed
Crash ==
    /\ pc \in Running
    /\ pc' = "crashed"
    /\ all_data' = <<>>
    /\ created' = FALSE
    /\ ResetLocals
    /\ UNCHANGED <<file, now, err, Config, persisted>>

\* the script is started again on the same file
Restart ==
    /\ pc \in {"crashed", "error"}
    /\ pc' = "init"
    /\ all_data' = <<>>
    /\ err' = ""
    /\ created' = FALSE
    /\ ResetLocals
    /\ UNCHANGED <<file, now, Config, persisted>>

(***************************************************************************)
(* Specifications                                                          *)
(***************************************************************************)
K == <<"K">>
Base == <<"h", "?">>
RouteParameters == << <<<<"w", "p">>, Str(<<"a">>)>>, <<<<"o">>, None>>,
                      <<<<"n">>, Int_(12)>> >>

InitialStores == {<<>>, << <<0, Num(42)>> >>}
InitialFiles == {NoFile} \cup {FileOf(s) : s \in InitialStores}

InitProcess ==
    /\ all_data = <<>>
    /\ now = 0
    /\ curr_time = 0
    /\ interval = 0
    /\ store_json = FALSE
    /\ url = <<>>
    /\ resp = NoResp
    /\ received_data = NoJson
    /\ packet = NoPacket
    /\ err = ""
    /\ data0 = <<>>
    /\ file0 = NoFile
    /\ fetches = 0
    /\ resp_at = 0
    /\ created = FALSE

Init ==
    /\ pc = "init"
    /\ file \in InitialFiles
    /\ persisted = (IF file.exists THEN pickle_load(file.bytes).data ELSE <<>>)
    /\ parameters = RouteParameters
    /\ base_url = Base
    /\ api_key = K
    /\ InitProcess

Next ==
    \/ Construct
    \/ CtorDump
    \/ CollectData
    \/ LoopCheck(Drifts)
    \/ Sleep(Drifts)
    \/ IfCheck
    \/ SendRequest(Drifts)
    \/ GetPacket
    \/ AppendPacket
    \/ PersistOpen
    \/ PersistDump
    \/ Crash
    \/ Restart

Spec == Init /\ [][Next]_vars

\* The same process when time passes only in the blocking calls: sleep(10)
\* takes exactly 10 and reading the clock takes no time.
NextExact ==
    \/ Construct
    \/ CtorDump
    \/ CollectData
    \/ LoopCheck({0})
    \/ Sleep({0})
    \/ IfCheck
    \/ SendRequest(Drifts)
    \/ GetPacket
    \/ AppendPacket
    \/ PersistOpen
    \/ PersistDump
    \/ Crash
    \/ Restart

SpecExact == Init /\ [][NextExact]_vars

(***************************************************************************)
(* build_url alone, on every small parameter mapping                       *)
(***************************************************************************)
MaxParams == 2

ParamNames == {<<"a">>, <<"b", "c">>, <<"k", "e", "y">>}
ParamValues == {None, Str(<<"x">>), Str(<<"y", "&", "a", "=">>), Int_(7), Int_(120)}
ApiKeys == {<<"K">>, <<"s", "3">>}
BaseUrls == {<<"h", "?">>}

Mappings ==
    {m \in UNION {[1..n -> ParamNames \X ParamValues] : n \in 0..MaxParams} :
        \A i, j \in 1..Len(m) : i # j => m[i][1] # m[j][1]}

InitUrl ==
    /\ pc = "url"
    /\ file = NoFile
    /\ persisted = <<>>
    /\ parameters \in Mappings
    /\ base_url \in BaseUrls
    /\ api_key \in ApiKeys
    /\ InitProcess

\* line 110: url = self.build_url(self.parameters)
BuildUrl ==
    /\ pc = "url"
    /\ url' = build_url(base_url, parameters, api_key)
    /\ pc' = "url_done"
    /\ UNCHANGED <<all_data, file, now, err, curr_time, interval, store_json, resp,
                   received_data, packet, data0, file0, fetches, resp_at, Config,
                   persisted, created>>

NextUrl == BuildUrl

SpecUrl == InitUrl /\ [][NextUrl]_vars

(***************************************************************************)
(* Helpers of the properties                                               *)
(***************************************************************************)
Front(q) == SubSeq(q, 1, Len(q) - 1)
IsPrefix(a, b) == Len(a) <= Len(b) /\ SubSeq(b, 1, Len(a)) = a
StartsWith(q, a) == IsPrefix(a, q)
Is2xx(status) == status \in 200..299

RECURSIVE Concat(_)
Concat(qs) == IF qs = <<>> THEN <<>> ELSE Head(qs) \o Concat(Tail(qs))

RECURSIVE SplitFrom(_, _, _, _, _)
SplitFrom(q, sep, i, cur, out) ==
    IF i > Len(q) THEN Append(out, cur)
    ELSE IF q[i] = sep THEN SplitFrom(q, sep, i + 1, <<>>, Append(out, cur))
    ELSE SplitFrom(q, sep, i + 1, Append(cur, q[i]), out)

Split(q, sep) == SplitFrom(q, sep, 1, <<>>, <<>>)

Present(entry) == entry[2] # None
HasSeparator(q) == \E i \in 1..Len(q) : q[i] = "&"
KeyEquals == <<"k", "e", "y", "=">>

InCall == pc \in {"while", "sleep", "if", "request", "got", "append", "persist",
                  "dumping", "returned", "error"}
Answered == resp.kind = "response"
Usable == Answered /\ resp.text.valid /\ resp.text.doc \in GoodDocs
LacksPath == Answered /\ resp.text.valid /\ resp.text.doc \in BadDocs
Unchanged == all_data = data0 /\ file = file0

(***************************************************************************)
(* C1: in every state after construction, also inside the persist step,    *)
(* the file loads to the list of the last completed write, and that list   *)
(* is the in-memory list or the in-memory list without its last element.   *)
(***************************************************************************)
C1_DiskReflectsLastWrite ==
    pc \in Running \ {"ctor_dump"} =>
        /\ file.exists
        /\ LET res == pickle_load(file.bytes)
           IN  /\ res.ok
               /\ res.data = persisted
               /\ \/ res.data = all_data
                  \/ all_data # <<>> /\ res.data = Front(all_data)

(***************************************************************************)
(* C2: a call of collect_data that returns has sent exactly one request;   *)
(* all_data is the list at call time with one sample appended, and the     *)
(* file holds that list.                                                   *)
(***************************************************************************)
C2_ExactlyOneSample ==
    pc = "returned" =>
        /\ fetches = 1
        /\ packet # NoPacket
        /\ all_data = Append(data0, packet)
        /\ file = FileOf(all_data)

(***************************************************************************)
(* C3: collect_data called with interval 0 has taken one sample when it    *)
(* returns.                                                                *)
(***************************************************************************)
C3_ZeroIntervalSamples ==
    (pc = "returned" /\ interval = 0) =>
        /\ fetches = 1
        /\ Len(all_data) = Len(data0) + 1

(***************************************************************************)
(* C4: a response whose JSON lacks resourceSets[0].resources[0] or the     *)
(* field travelDurationTraffic ends the call with a KeyError or an         *)
(* IndexError, whatever store_json is, and all_data and the file are what  *)
(* they were when the call started.                                        *)
(***************************************************************************)
C4_SchemaErrorAppendsNothing ==
    LacksPath =>
        /\ pc \in {"got", "error"}
        /\ pc = "error" => err \in {"KeyError", "IndexError"}
        /\ fetches = 1
        /\ Unchanged

C4_Witness ==
    /\ LacksPath
    /\ resp.text.doc = NoResourceSets
    /\ pc = "error"
    /\ store_json
    /\ Len(data0) >= 1
    /\ file = FileOf(data0)

C6_BuildUrl ==
    pc = "url_done" =>
        LET sel == SelectSeq(parameters, Present)
            query == SubSeq(url, Len(base_url) + 1, Len(url))
            segs == Split(query, "&")
        IN  /\ url = base_url
                     \o Concat([i \in 1..Len(sel) |->
                                   sel[i][1] \o <<"=">> \o str(sel[i][2]) \o <<"&">>])
                     \o KeyEquals \o api_key
            /\ url[Len(url)] # "&"
            /\ (\A i \in 1..Len(sel) : ~HasSeparator(str(sel[i][2]))) =>
                  /\ Len(segs) = Len(sel) + 1
                  /\ segs[Len(segs)] = KeyEquals \o api_key
                  /\ \A i \in 1..Len(sel) :
                        segs[i] = sel[i][1] \o <<"=">> \o str(sel[i][2])
                  /\ \A j \in 1..Len(parameters) :
                        ~Present(parameters[j]) =>
                            \A i \in 1..(Len(segs) - 1) :
                                ~StartsWith(segs[i], parameters[j][1] \o <<"=">>)

C6_Witness ==
    /\ pc = "url_done"
    /\ Len(parameters) = 2
    /\ parameters[1][2] = None
    /\ parameters[2][2] = Int_(120)
    /\ url = base_url \o parameters[2][1] \o <<"=", "1", "2", "0", "&">>
             \o KeyEquals \o api_key

(***************************************************************************)
(* C7: when __init__ finds no file it creates one and, once construction   *)
(* is complete, all_data is empty and the file holds the empty list; no    *)
(* request has been sent and no sample appended by then.                   *)
(***************************************************************************)
C7_CreatesEmptyStore ==
    /\ [](pc = "ctor_dump" =>
             (created /\ file.exists /\ all_data = <<>> /\ fetches = 0))
    /\ []((pc = "ready" /\ created) =>
             (all_data = <<>> /\ file = FileOf(<<>>) /\ fetches = 0))
    /\ [][(pc = "init" /\ ~file.exists) => (pc' = "ctor_dump" /\ file'.exists)]_vars

C7_Witness ==
    /\ pc = "ready"
    /\ created
    /\ all_data = <<>>
    /\ file = FileOf(<<>>)

(***************************************************************************)
(* C8: constructing on an existing file leaves the file as it is; when the *)
(* file is the one the last completed write left, construction loads       *)
(* exactly the persisted list; and while a process runs all_data only      *)
(* grows at its end, so later samples follow the loaded ones.              *)
(***************************************************************************)
C8_RoundTrip ==
    [][/\ (pc = "init" /\ file.exists) => file' = file
       /\ (pc = "init" /\ file = FileOf(persisted)) =>
              (pc' = "ready" /\ all_data' = persisted)
       /\ (pc \in Running /\ pc' \in Running) => IsPrefix(all_data, all_data')]_vars

C8_Witness ==
    /\ pc = "ready"
    /\ Len(all_data) = 2
    /\ all_data[2][1] >= Granularity
    /\ all_data = persisted
    /\ file = FileOf(all_data)

(***************************************************************************)
(* C9: for a response of the expected shape get_packet returns the number  *)
(* at resourceSets[0].resources[0].travelDurationTraffic when store_json   *)
(* is false and the whole parsed response when it is true; the sample      *)
(* appended is that value with a timestamp read after the response came.   *)
(***************************************************************************)
C9_SampleValue ==
    /\ (Usable /\ InCall) => (pc = "got" \/ packet # NoPacket)
    /\ packet # NoPacket =>
          /\ Usable
          /\ packet[2] = (IF store_json THEN resp.text.doc
                          ELSE resp.text.doc.resourceSets[1].resources[1]
                                   .travelDurationTraffic)
          /\ packet[1] >= resp_at
          /\ pc # "append" =>
                (all_data # <<>> /\ all_data[Len(all_data)] = packet)

C9_Witness ==
    /\ pc = "returned"
    /\ Len(all_data) >= 2
    /\ \E i, j \in 1..Len(all_data) :
          /\ all_data[i][2] = Num(42)
          /\ all_data[j][2] = Route(42)
          /\ all_data[j][1] > 0

====
